---- MODULE Spec2Model ----
(***************************************************************************)
(* A model of index.js, the Oxford Dictionaries command-line lookup: one   *)
(* request is issued with axios, its response is reduced by treatResponse  *)
(* to a mapping from part of speech to definitions and printed, and every  *)
(* failure ends in treatError.                                             *)
(*                                                                         *)
(* JavaScript values are represented as follows.                           *)
(*   - an object is a record; a key that may be absent holds an option:    *)
(*     None (the key is absent, reading it gives undefined) or Some(v);    *)
(*   - an array is a sequence;                                             *)
(*   - the value undefined, where it can become an element of an array,    *)
(*     is the token JSundefined, which no definition string equals;        *)
(*   - a multi-line string is the sequence of its lines, and the console   *)
(*     is the sequence of the lines written to it.                         *)
(***************************************************************************)
EXTENDS Integers, Sequences, FiniteSets, TLC

VARIABLES pc, response, error, collection, console, calls

vars == <<pc, response, error, collection, console, calls>>

(***************************************************************************)
(* Bounds of the explored inputs.                                          *)
(***************************************************************************)
MaxResults == 2
MaxLexTotal == 2
MaxEntries == 1
MaxSenses == 1
MaxDefs == 1

(***************************************************************************)
(* Optional keys and small helpers on sequences.                           *)
(***************************************************************************)
None == <<>>

Some(v) == <<v>>

IsSome(o) == o # <<>>

Val(o) == o[1]

Last(s) == s[Len(s)]

\* The element of a one-element set.  Only({f(r) : r \in {e}}) is f(e) with
\* e evaluated once, as a const of the code is.
Only(S) == CHOOSE x \in S : TRUE

Contains(s, v) == \E i \in 1..Len(s) : s[i] = v

Count(s, v) == Cardinality({i \in 1..Len(s) : s[i] = v})

RECURSIVE SeqsOfLen(_, _)
SeqsOfLen(S, n) ==
  IF n = 0 THEN {<<>>}
  ELSE {<<x>> \o t : x \in S, t \in SeqsOfLen(S, n - 1)}

SeqsUpTo(S, n) == UNION {SeqsOfLen(S, k) : k \in 0..n}

(***************************************************************************)
(* The command line: the expression looked up.                             *)
(***************************************************************************)
expression == "debug"

\* The value undefined as an array element.
JSundefined == "<undefined>"

\* `${v}` in a template literal: undefined is written as the word undefined.
ToText(v) == IF v = JSundefined THEN "undefined" ELSE v

(***************************************************************************)
(* treatEntry: the definitions of one entry, senses defaulting to [].      *)
(***************************************************************************)
\* [...array, sense.definitions].flat(): an array is spliced in, any other
\* value, undefined included, stays as one element.
treatSense(array, sense) ==
  array \o (IF IsSome(sense.definitions) THEN Val(sense.definitions)
            ELSE <<JSundefined>>)

RECURSIVE reduceSenses(_, _)
reduceSenses(senses, array) ==
  IF senses = <<>> THEN array
  ELSE reduceSenses(Tail(senses), treatSense(array, Head(senses)))

treatEntry(entry) ==
  LET senses == IF IsSome(entry.senses) THEN Val(entry.senses) ELSE <<>>
  IN  reduceSenses(senses, <<>>)

\* entries.map(treatEntry).flat()
RECURSIVE mapFlatEntries(_)
mapFlatEntries(entries) ==
  IF entries = <<>> THEN <<>>
  ELSE treatEntry(Head(entries)) \o mapFlatEntries(Tail(entries))

(***************************************************************************)
(* The collector object: its own properties in creation order.             *)
(***************************************************************************)
EmptyObject == <<>>

HasOwn(obj, key) == \E i \in 1..Len(obj) : obj[i].key = key

Get(obj, key) == obj[CHOOSE i \in 1..Len(obj) : obj[i].key = key].value

\* obj[key] = value: an existing property keeps its place, a new one is
\* created last.
Put(obj, key, value) ==
  IF HasOwn(obj, key)
  THEN [i \in 1..Len(obj) |->
          IF obj[i].key = key THEN [key |-> key, value |-> value] ELSE obj[i]]
  ELSE Append(obj, [key |-> key, value |-> value])

\* The keys that are canonical array indices, with their numeric value.
ArrayIndexKeys == {<<"1", 1>>}

IsArrayIndex(key) == \E p \in ArrayIndexKeys : p[1] = key

ArrayIndexOf(key) == (CHOOSE p \in ArrayIndexKeys : p[1] = key)[2]

RECURSIVE SortByIndex(_)
SortByIndex(keys) ==
  IF keys = {} THEN <<>>
  ELSE LET m == CHOOSE k \in keys :
                  \A o \in keys : ArrayIndexOf(k) <= ArrayIndexOf(o)
       IN  <<m>> \o SortByIndex(keys \ {m})

RECURSIVE CreationOrder(_)
CreationOrder(obj) ==
  IF obj = <<>> THEN <<>>
  ELSE (IF IsArrayIndex(Head(obj).key) THEN <<>> ELSE <<Head(obj).key>>)
       \o CreationOrder(Tail(obj))

\* Object.keys(obj): the array-index keys in ascending numeric order, then
\* the other string keys in creation order.
ObjectKeys(obj) ==
  SortByIndex({obj[i].key : i \in {j \in 1..Len(obj) : IsArrayIndex(obj[j].key)}})
  \o CreationOrder(obj)

(***************************************************************************)
(* Results of a call that may throw.                                       *)
(***************************************************************************)
Return(v) == [raised |-> FALSE, value |-> v]

Throw(e) == [raised |-> TRUE, error |-> e]

\* The TypeError of reading a property of undefined.
TypeError(property) ==
  [name |-> "TypeError",
   message |-> "Cannot read properties of undefined (reading '" \o property \o "')",
   response |-> None,
   code |-> None]

(***************************************************************************)
(* treatLexicalEntry, treatTopLevelObject and the two reduce calls.        *)
(***************************************************************************)
\* treatLexicalEntry putting the new definitions before the current ones.
treatLexicalEntryPrepend(collector, lexicalEntry) ==
  IF ~IsSome(lexicalEntry.lexicalCategory) THEN Throw(TypeError("text"))
  ELSE IF ~IsSome(lexicalEntry.entries) THEN Throw(TypeError("map"))
  ELSE LET partOfSpeech == Val(lexicalEntry.lexicalCategory).text
           definitions == mapFlatEntries(Val(lexicalEntry.entries))
           current == IF HasOwn(collector, partOfSpeech)
                      THEN Get(collector, partOfSpeech) ELSE <<>>
       IN  Return(Put(collector, partOfSpeech, definitions \o current))

treatLexicalEntry(collector, lexicalEntry) ==
  IF ~IsSome(lexicalEntry.lexicalCategory) THEN Throw(TypeError("text"))
  ELSE IF ~IsSome(lexicalEntry.entries) THEN Throw(TypeError("map"))
  ELSE LET partOfSpeech == Val(lexicalEntry.lexicalCategory).text
           definitions == mapFlatEntries(Val(lexicalEntry.entries))
           current == IF HasOwn(collector, partOfSpeech)
                      THEN Get(collector, partOfSpeech) ELSE <<>>
       IN  Return(Put(collector, partOfSpeech, current \o definitions))

RECURSIVE reduceLexicalEntries(_, _)
reduceLexicalEntries(lexicalEntries, collector) ==
  IF lexicalEntries = <<>> THEN Return(collector)
  ELSE Only({IF r.raised THEN r
              ELSE reduceLexicalEntries(Tail(lexicalEntries), r.value) :
              r \in {treatLexicalEntry(collector, Head(lexicalEntries))}})

\* treatTopLevelObject with lexicalEntries defaulting to [].
treatTopLevelObjectDefaulting(collector, topLevelObject) ==
  IF ~IsSome(topLevelObject.lexicalEntries) THEN Return(collector)
  ELSE reduceLexicalEntries(Val(topLevelObject.lexicalEntries), collector)

treatTopLevelObject(collector, topLevelObject) ==
  IF ~IsSome(topLevelObject.lexicalEntries) THEN Throw(TypeError("reduce"))
  ELSE reduceLexicalEntries(Val(topLevelObject.lexicalEntries), collector)

RECURSIVE reduceResults(_, _)
reduceResults(results, collector) ==
  IF results = <<>> THEN Return(collector)
  ELSE Only({IF r.raised THEN r
              ELSE reduceResults(Tail(results), r.value) :
              r \in {treatTopLevelObject(collector, Head(results))}})

(***************************************************************************)
(* The text of treatResponse, as lines.                                    *)
(***************************************************************************)
Banner == "***************************"

\* catDefs numbering from 0: `${index}. ${definition}`
catDefsFromZero(data) ==
  [index \in 1..Len(data) |-> ToString(index - 1) \o ". " \o ToText(data[index])]

\* data.map((definition, index) => `${index + 1}. ${definition}`)
catDefs(data) ==
  [index \in 1..Len(data) |-> ToString(index) \o ". " \o ToText(data[index])]

\* text + more, both as lines: the last line of text continues with the
\* first line of more.
Concat(text, more) ==
  SubSeq(text, 1, Len(text) - 1)
  \o <<Last(text) \o Head(more)>>
  \o Tail(more)

\* renderCategory without the test of data.length.
renderCategoryAlways(definitions, category, data) ==
  Concat(definitions, <<"", "# " \o category>> \o catDefs(data) \o <<"">>)

\* One pass of categories.forEach: `\n# ${category}\n${catDefs.join("\n")}\n`
\* is added when the category's array is not empty.
renderCategory(definitions, category, data) ==
  IF Len(data) > 0
  THEN Concat(definitions, <<"", "# " \o category>> \o catDefs(data) \o <<"">>)
  ELSE definitions

RECURSIVE forEachCategory(_, _, _)
forEachCategory(categories, coll, definitions) ==
  IF categories = <<>> THEN definitions
  ELSE forEachCategory(Tail(categories), coll,
         renderCategory(definitions, Head(categories),
                        Get(coll, Head(categories))))

renderDefinitions(coll) == forEachCategory(ObjectKeys(coll), coll, <<"">>)

\* The lines of `\nDefinitions of "${expression}", as provided by ...`
titleLines(provider) ==
  <<"", "Definitions of \"" \o expression \o "\", as provided by " \o provider>>

(***************************************************************************)
(* treatResponse as a whole: the collection it computed (if it got that    *)
(* far), the lines it logged, and the error it threw (if any).             *)
(***************************************************************************)
\* results.reduce(treatTopLevelObject, {})
reduceResponse(data) ==
  IF ~IsSome(data.results) THEN Throw(TypeError("reduce"))
  ELSE reduceResults(Val(data.results), EmptyObject)

\* What follows the reducer: the text is built, then the four lines are
\* logged, metadata.provider being read for the second.
renderResponse(data, coll) ==
  IF ~IsSome(data.metadata)
  THEN [collection |-> Some(coll),
        logged |-> <<Banner>>,
        thrown |-> Some(TypeError("provider"))]
  ELSE LET metadata == Val(data.metadata)
           provider == IF IsSome(metadata.provider)
                       THEN Val(metadata.provider) ELSE "undefined"
       IN  [collection |-> Some(coll),
            logged |-> <<Banner>> \o titleLines(provider)
                       \o renderDefinitions(coll) \o <<Banner>>,
            thrown |-> None]

treatResponse(resp) ==
  Only({IF reduced.raised
        THEN [collection |-> None, logged |-> <<>>, thrown |-> Some(reduced.error)]
        ELSE renderResponse(resp.data, reduced.value) :
        reduced \in {reduceResponse(resp.data)}})

(***************************************************************************)
(* treatError: the lines it logs.                                          *)
(***************************************************************************)
\* Stands for the warning sign U+26A0.
Warn == "(!)"

\* The statuses of case 400: case 403:, and the same without case 403.
credentialStatusesWithout403 == {400}

credentialStatuses == {400, 403}

treatError(err) ==
  IF IsSome(err.response)
  THEN LET status == Val(err.response).status
           statusText == Val(err.response).statusText
       IN  IF status = 404
           THEN <<Warn,
                  "ERROR " \o ToString(status) \o ": \"" \o expression \o "\" "
                     \o statusText \o Warn,
                  "Please check your spelling",
                  Warn>>
           ELSE IF status \in credentialStatuses
           THEN <<Warn,
                  "ERROR " \o ToString(status) \o ": " \o statusText,
                  "Check the APP_KEY and APP_ID in your .env file.",
                  Warn>>
           ELSE <<Warn,
                  "ERROR " \o ToString(status) \o " for \"" \o expression \o "\": "
                     \o statusText,
                  Warn>>
  ELSE IF err.code = Some("ERR_HTTP_INVALID_HEADER_VALUE")
  THEN <<Warn,
         "ERROR: " \o err.message,
         "Check that you have correctly created the .env file.",
         "Get your own key and id here: https://developer.oxforddictionaries.com",
         Warn>>
  ELSE <<err.name \o ": " \o err.message>>

(***************************************************************************)
(* The responses explored.  Two families share the bounds: broad ones, of  *)
(* up to MaxResults results holding up to MaxLexTotal lexical entries in   *)
(* all, taken from a small library; and deep ones, of one lexical entry    *)
(* with every nesting of entries, senses and definitions within the        *)
(* bounds.  No label is the name of a property of Object.prototype, and no *)
(* definition holds a line break.                                          *)
(***************************************************************************)
Strings == {"a", "b"}

Labels == {"Noun", "Verb", "1"}

Sense(definitions) == [definitions |-> definitions]

SenseGroup(senses) == [senses |-> senses]

LexicalEntry(lexicalCategory, entries) ==
  [lexicalCategory |-> lexicalCategory, entries |-> entries]

Category(text) == Some([text |-> text])

ResultEntry(lexicalEntries) == [lexicalEntries |-> lexicalEntries]

Senses ==
  {Sense(None)} \cup {Sense(Some(d)) : d \in SeqsUpTo(Strings, MaxDefs)}

SenseGroups ==
  {SenseGroup(None)} \cup {SenseGroup(Some(s)) : s \in SeqsUpTo(Senses, MaxSenses)}

DeepResults ==
  {Some(<<ResultEntry(Some(<<LexicalEntry(Category("Noun"), Some(e))>>))>>) :
     e \in SeqsUpTo(SenseGroups, MaxEntries)}

\* entries: [{senses: [{definitions: d}]}]
EntriesOf(d) == Some(<<SenseGroup(Some(<<Sense(Some(d))>>))>>)

\* entries: [{}]
EntriesWithoutSenses == Some(<<SenseGroup(None)>>)

\* The library of the broad family: a label with one definition, with
\* another and with none, a label with two definitions, a label that is an
\* array index, and the two defective shapes.
LexLib ==
  {LexicalEntry(Category("Noun"), EntriesOf(<<"a">>)),
   LexicalEntry(Category("Noun"), EntriesOf(<<"b">>)),
   LexicalEntry(Category("Noun"), EntriesWithoutSenses),
   LexicalEntry(Category("Verb"), EntriesOf(<<"a", "b">>)),
   LexicalEntry(Category("1"), EntriesOf(<<"a">>)),
   LexicalEntry(None, EntriesOf(<<"a">>)),
   LexicalEntry(Category("Noun"), None)}

\* The result entries holding exactly n lexical entries.
ResultEntriesWith(n) ==
  {ResultEntry(Some(l)) : l \in SeqsOfLen(LexLib, n)}
  \cup (IF n = 0 THEN {ResultEntry(None)} ELSE {})

\* The arrays of at most r result entries holding at most n lexical entries.
RECURSIVE ResultArrays(_, _)
ResultArrays(n, r) ==
  IF r = 0 THEN {<<>>}
  ELSE {<<>>} \cup
       UNION {{<<e>> \o t : e \in ResultEntriesWith(k), t \in ResultArrays(n - k, r - 1)} :
                k \in 0..n}

WideResults == {None} \cup {Some(a) : a \in ResultArrays(MaxLexTotal, MaxResults)}

Metadatas ==
  {None, Some([provider |-> None]),
   Some([provider |-> Some("Oxford University Press")])}

\* What axios resolves with: treatResponse reads its data only.
Responses ==
  {[data |-> [metadata |-> m, results |-> r]] :
     m \in Metadatas, r \in WideResults \cup DeepResults}

(***************************************************************************)
(* What axios rejects with: an HTTP response outside 2xx, or no response.  *)
(***************************************************************************)
StatusTexts ==
  {<<400, "Bad Request">>, <<401, "Unauthorized">>, <<403, "Forbidden">>,
   <<404, "Not Found">>, <<500, "Internal Server Error">>}

AxiosErrors ==
  {[name |-> "AxiosError",
    message |-> "Request failed with status code " \o ToString(p[1]),
    response |-> Some([status |-> p[1], statusText |-> p[2]]),
    code |-> Some(IF p[1] < 500 THEN "ERR_BAD_REQUEST" ELSE "ERR_BAD_RESPONSE")] :
     p \in StatusTexts}
  \cup
  {[name |-> "TypeError",
    message |-> "Invalid value \"undefined\" for header \"APP_ID\"",
    response |-> None,
    code |-> Some("ERR_HTTP_INVALID_HEADER_VALUE")],
   [name |-> "Error",
    message |-> "getaddrinfo ENOTFOUND od-api.oxforddictionaries.com",
    response |-> None,
    code |-> Some("ENOTFOUND")]}

(***************************************************************************)
(* The run: axios(config).then(treatResponse).catch(treatError).           *)
(***************************************************************************)
Init ==
  /\ pc = "start"
  /\ response = None
  /\ error = None
  /\ collection = None
  /\ console = <<>>
  /\ calls = <<>>

\* axios(config): the request is issued and the two handlers are attached.
Request ==
  /\ pc = "start"
  /\ pc' = "pending"
  /\ calls' = Append(calls, "axios")
  /\ UNCHANGED <<response, error, collection, console>>

\* The request succeeds: the promise of axios is fulfilled with a response.
RequestFulfilled ==
  /\ pc = "pending"
  /\ \E r \in Responses : response' = Some(r)
  /\ pc' = "fulfilled"
  /\ UNCHANGED <<error, collection, console, calls>>

\* The request fails: the promise of axios is rejected, then() passes the
\* rejection on to catch().
RequestRejected ==
  /\ pc = "pending"
  /\ \E e \in AxiosErrors : error' = Some(e)
  /\ pc' = "rejected"
  /\ UNCHANGED <<response, collection, console, calls>>

\* then(treatResponse) with nothing to catch what treatResponse throws.
TreatResponseUncaught ==
  /\ pc = "fulfilled"
  /\ \E out \in {treatResponse(Val(response))} :
       /\ collection' = out.collection
       /\ console' = console \o out.logged
       /\ error' = out.thrown
  /\ pc' = "done"
  /\ calls' = Append(calls, "treatResponse")
  /\ UNCHANGED response

\* then(treatResponse): what it throws rejects the promise catch() is on.
TreatResponse ==
  /\ pc = "fulfilled"
  /\ \E out \in {treatResponse(Val(response))} :
       /\ collection' = out.collection
       /\ console' = console \o out.logged
       /\ error' = out.thrown
       /\ pc' = IF IsSome(out.thrown) THEN "rejected" ELSE "done"
  /\ calls' = Append(calls, "treatResponse")
  /\ UNCHANGED response

\* catch(treatError)
TreatError ==
  /\ pc = "rejected"
  /\ console' = console \o treatError(Val(error))
  /\ pc' = "done"
  /\ calls' = Append(calls, "treatError")
  /\ UNCHANGED <<response, error, collection>>

Next ==
  \/ Request
  \/ RequestFulfilled
  \/ RequestRejected
  \/ TreatResponse
  \/ TreatError

Spec == Init /\ [][Next]_vars

\* The script runs to its last statement, a request that does not succeed
\* fails in the end, and the event loop runs the handler of every settled
\* promise.
FairSpec ==
  /\ Spec
  /\ WF_vars(Request)
  /\ WF_vars(RequestRejected)
  /\ WF_vars(TreatResponse)
  /\ WF_vars(TreatError)

(***************************************************************************)
(* What the properties speak of.                                           *)
(***************************************************************************)
Ran(f) == Contains(calls, f)

\* treatResponse got past the reducer: the mapping exists.
Reduced == IsSome(collection)

\* treatResponse ran to its end.
Rendered == pc = "done" /\ Ran("treatResponse") /\ ~Ran("treatError")

\* treatResponse threw and treatError has not run yet.
Raised == pc = "rejected" /\ Ran("treatResponse")

ResultsOf(resp) == resp.data.results

RECURSIVE Flatten(_)
Flatten(ss) == IF ss = <<>> THEN <<>> ELSE Head(ss) \o Flatten(Tail(ss))

\* The lexical entries of the results, in traversal order.
AllLexicalEntries(results) ==
  Flatten([i \in 1..Len(results) |->
             IF IsSome(results[i].lexicalEntries)
             THEN Val(results[i].lexicalEntries) ELSE <<>>])

StringsOfSense(sense) ==
  IF IsSome(sense.definitions) THEN Val(sense.definitions) ELSE <<>>

StringsOfGroup(group) ==
  IF IsSome(group.senses)
  THEN Flatten([i \in 1..Len(Val(group.senses)) |->
                  StringsOfSense(Val(group.senses)[i])])
  ELSE <<>>

StringsOfLexicalEntry(lex) ==
  Flatten([i \in 1..Len(Val(lex.entries)) |-> StringsOfGroup(Val(lex.entries)[i])])

\* The definition strings under the label P, in traversal order.
StringsUnder(results, P) ==
  LET lexes == AllLexicalEntries(results)
  IN  Flatten([i \in 1..Len(lexes) |->
                 IF Val(lexes[i].lexicalCategory).text = P
                 THEN StringsOfLexicalEntry(lexes[i]) ELSE <<>>])

LabelsOf(results) ==
  LET lexes == AllLexicalEntries(results)
  IN  [i \in 1..Len(lexes) |-> Val(lexes[i].lexicalCategory).text]

(***************************************************************************)
(* C1: for every label P, the list the reducer stores under P is the       *)
(* concatenation, in traversal order, of the definition strings of every   *)
(* lexical entry labelled P, across results, with repetitions kept.        *)
(***************************************************************************)
C1_ListsAreConcatenations ==
  Rendered =>
    LET results == Val(ResultsOf(Val(response)))
        coll == Val(collection)
    IN  \A P \in Labels :
          /\ HasOwn(coll, P) <=> Contains(LabelsOf(results), P)
          /\ HasOwn(coll, P) => Get(coll, P) = StringsUnder(results, P)

WithoutBareSenses(senses) ==
  SelectSeq(senses, LAMBDA sense : IsSome(sense.definitions))

WithoutBareGroups(entries) ==
  LET kept == SelectSeq(entries, LAMBDA group : IsSome(group.senses))
  IN  [i \in 1..Len(kept) |->
         SenseGroup(Some(WithoutBareSenses(Val(kept[i].senses))))]

PrunedLexicalEntry(lex) ==
  IF IsSome(lex.entries)
  THEN LexicalEntry(lex.lexicalCategory, Some(WithoutBareGroups(Val(lex.entries))))
  ELSE lex

PrunedResult(result) ==
  IF IsSome(result.lexicalEntries)
  THEN ResultEntry(Some([i \in 1..Len(Val(result.lexicalEntries)) |->
                           PrunedLexicalEntry(Val(result.lexicalEntries)[i])]))
  ELSE result

Pruned(results) == [i \in 1..Len(results) |-> PrunedResult(results[i])]

(***************************************************************************)
(* C2: a sense without definitions and a sense group without senses add    *)
(* nothing and raise nothing: the reducer gives what it gives for the      *)
(* response without these objects.                                         *)
(***************************************************************************)
C2_BareObjectsAddNothing ==
  (/\ Ran("treatResponse")
   /\ IsSome(ResultsOf(Val(response)))
   /\ IsSome(Val(response).data.metadata)) =>
    LET pruned == reduceResults(Pruned(Val(ResultsOf(Val(response)))), EmptyObject)
    IN  /\ Reduced <=> ~pruned.raised
        /\ Reduced =>
             \A P \in Labels :
               HasOwn(Val(collection), P) =>
                 Get(Val(collection), P) = Get(pruned.value, P)

MalformedTopLevel ==
  /\ IsSome(response)
  /\ LET results == ResultsOf(Val(response))
     IN  \/ ~IsSome(results)
         \/ \E i \in 1..Len(Val(results)) : ~IsSome(Val(results)[i].lexicalEntries)

(***************************************************************************)
(* C3, as claimed: when the body lacks results, or a result entry lacks    *)
(* lexicalEntries, treatResponse fails with a MalformedResponseError.      *)
(***************************************************************************)
C3_MalformedResponseError ==
  (MalformedTopLevel /\ Ran("treatResponse")) =>
    /\ IsSome(error)
    /\ Val(error).name = "MalformedResponseError"

(***************************************************************************)
(* C3, amended: when the body lacks results, or a result entry lacks       *)
(* lexicalEntries, treatResponse fails with a plain TypeError before it    *)
(* has built a mapping or printed a line, and the error reaches            *)
(* treatError, which logs it as a script error.                            *)
(***************************************************************************)
C3_MalformedRaisesTypeError ==
  (MalformedTopLevel /\ Ran("treatResponse")) =>
    /\ IsSome(error)
    /\ Val(error).name = "TypeError"
    /\ ~IsSome(Val(error).response)
    /\ ~Reduced
    /\ pc \in {"rejected", "done"}
    /\ pc = "rejected" => console = <<>>
    /\ pc = "done" =>
         /\ Ran("treatError")
         /\ console = <<"TypeError: " \o Val(error).message>>

C3_Witness ==
  /\ pc = "done"
  /\ MalformedTopLevel
  /\ IsSome(ResultsOf(Val(response)))
  /\ Len(Val(ResultsOf(Val(response)))) = 2
  /\ IsSome(Val(ResultsOf(Val(response)))[1].lexicalEntries)
  /\ Ran("treatError")

HeaderLine(c) == CHOOSE h \in 1..Len(console) : console[h] = "# " \o c

FirstMet(c) ==
  LET labels == LabelsOf(Val(ResultsOf(Val(response))))
  IN  CHOOSE i \in 1..Len(labels) :
        labels[i] = c /\ \A j \in 1..(i - 1) : labels[j] # c

(***************************************************************************)
(* C4: the categories are iterated in the order in which the labels were   *)
(* first met in the traversal: the block of a label met first comes        *)
(* before the block of a label met later.                                  *)
(***************************************************************************)
C4_FirstSeenOrder ==
  Rendered =>
    \A A, B \in Labels :
      (/\ Contains(console, "# " \o A)
       /\ Contains(console, "# " \o B)
       /\ FirstMet(A) < FirstMet(B)) =>
        HeaderLine(A) < HeaderLine(B)

(***************************************************************************)
(* C5: in a finished rendering a category whose list is empty has no       *)
(* header line, and a category whose list is not empty has exactly one.    *)
(***************************************************************************)
C5_HeaderIffNonEmpty ==
  Rendered =>
    \A c \in Labels :
      Count(console, "# " \o c)
        = IF HasOwn(Val(collection), c) /\ Len(Get(Val(collection), c)) > 0
          THEN 1 ELSE 0

C5_Witness ==
  /\ Rendered
  /\ \E c \in Labels :
       HasOwn(Val(collection), c) /\ Get(Val(collection), c) = <<>>
  /\ \E c \in Labels :
       HasOwn(Val(collection), c) /\ Get(Val(collection), c) # <<>>

(***************************************************************************)
(* C6: in a finished rendering, the block of a category whose list is not  *)
(* empty is its header line followed by one line "<i>. <definition>" per   *)
(* definition, i counting from 1 in list order, and then a blank line.     *)
(***************************************************************************)
C6_NumberedBlocks ==
  Rendered =>
    \A c \in Labels :
      (HasOwn(Val(collection), c) /\ Len(Get(Val(collection), c)) > 0) =>
        LET list == Get(Val(collection), c)
        IN  \E h \in 1..Len(console) :
              /\ console[h] = "# " \o c
              /\ h + Len(list) + 1 <= Len(console)
              /\ \A i \in 1..Len(list) :
                   console[h + i] = ToString(i) \o ". " \o ToText(list[i])
              /\ console[h + Len(list) + 1] = ""

C6_Witness ==
  /\ Rendered
  /\ \E c \in Labels :
       HasOwn(Val(collection), c) /\ Len(Get(Val(collection), c)) = 2
  /\ \E c \in Labels :
       HasOwn(Val(collection), c) /\ Len(Get(Val(collection), c)) = 1

Handled == pc = "done" /\ Ran("treatError")

HasStatus(statuses) ==
  /\ IsSome(Val(error).response)
  /\ Val(Val(error).response).status \in statuses

SaysSpelling == Contains(console, "Please check your spelling")

SaysCredentials ==
  Contains(console, "Check the APP_KEY and APP_ID in your .env file.")

SaysStatus ==
  /\ IsSome(Val(error).response)
  /\ Contains(console,
       "ERROR " \o ToString(Val(Val(error).response).status)
         \o " for \"" \o expression \o "\": "
         \o Val(Val(error).response).statusText)

SaysConfiguration ==
  Contains(console, "Check that you have correctly created the .env file.")

SaysScriptError ==
  Contains(console, Val(error).name \o ": " \o Val(error).message)

(***************************************************************************)
(* C7: treatError puts every failure in exactly one class of message: 404  *)
(* asks to check the spelling, 400 and 403 to check APP_KEY and APP_ID,    *)
(* any other status gives the generic status message, an invalid header    *)
(* value without a response asks to check the .env file, and any other     *)
(* error without a response is logged as it is.                            *)
(***************************************************************************)
C7_OneMessageClass ==
  Handled =>
    /\ SaysSpelling <=> HasStatus({404})
    /\ SaysCredentials <=> HasStatus({400, 403})
    /\ SaysStatus <=>
         (IsSome(Val(error).response) /\ ~HasStatus({404, 400, 403}))
    /\ SaysConfiguration <=>
         (/\ ~IsSome(Val(error).response)
          /\ Val(error).code = Some("ERR_HTTP_INVALID_HEADER_VALUE"))
    /\ SaysScriptError <=>
         (/\ ~IsSome(Val(error).response)
          /\ Val(error).code # Some("ERR_HTTP_INVALID_HEADER_VALUE"))
    /\ Cardinality({k \in 1..5 :
                      <<SaysSpelling, SaysCredentials, SaysStatus,
                        SaysConfiguration, SaysScriptError>>[k]}) = 1

C7_Witness == Handled /\ HasStatus({403}) /\ SaysCredentials

C8_Order ==
  /\ Count(calls, "axios") = IF pc = "start" THEN 0 ELSE 1
  /\ Count(calls, "treatResponse") <= 1
  /\ Count(calls, "treatError") <= 1
  /\ Ran("treatResponse") =>
       /\ IsSome(response)
       /\ calls[1] = "axios" /\ calls[2] = "treatResponse"
  /\ Ran("treatError") =>
       /\ IsSome(error)
       /\ Last(calls) = "treatError"
       /\ ~IsSome(response) \/ Ran("treatResponse")
  /\ pc = "done" =>
       /\ Ran("treatError") <=> IsSome(error)
       /\ Ran("treatError") <=>
            (~IsSome(response) \/ Last(console) # Banner \/ Len(console) = 1)
       /\ ~Ran("treatError") => Ran("treatResponse")

(***************************************************************************)
(* C8: one request is issued; treatResponse runs at most once and only     *)
(* after the request succeeded; treatError runs at most once, and runs     *)
(* exactly when the request failed or treatResponse threw; and every run   *)
(* ends in a finished rendering or in treatError.                          *)
(***************************************************************************)
C8_Lifecycle == []C8_Order /\ <>(pc = "done" /\ (Rendered \/ Handled))

C8_Witness == pc = "done" /\ calls = <<"axios", "treatResponse", "treatError">>

(***************************************************************************)
(* C9: when treatResponse throws, nothing has been written to the console  *)
(* by the time the error is on its way to treatError.                      *)
(***************************************************************************)
C9_NothingPrintedBeforeError == Raised => console = <<>>

\* The collector before the first call of treatLexicalEntry and after each
\* call, for the lexical entries reached.
RECURSIVE CollectorSteps(_, _)
CollectorSteps(lexes, collector) ==
  IF lexes = <<>> THEN <<collector>>
  ELSE LET r == treatLexicalEntry(collector, Head(lexes))
       IN  IF r.raised THEN <<collector>>
           ELSE <<collector>> \o CollectorSteps(Tail(lexes), r.value)

IsPrefix(s, t) == Len(s) <= Len(t) /\ SubSeq(t, 1, Len(s)) = s

Extends(after, before) ==
  /\ Len(before) <= Len(after)
  /\ \A i \in 1..Len(before) :
       /\ after[i].key = before[i].key
       /\ IsPrefix(before[i].value, after[i].value)

StepsOfResponse ==
  CollectorSteps(AllLexicalEntries(Val(ResultsOf(Val(response)))), EmptyObject)

C10_ListsOnlyGrow ==
  (IsSome(response) /\ IsSome(ResultsOf(Val(response)))) =>
    /\ \A i \in 1..(Len(StepsOfResponse) - 1) :
         Extends(StepsOfResponse[i + 1], StepsOfResponse[i])
    /\ Rendered => Val(collection) = Last(StepsOfResponse)

(***************************************************************************)
(* C10: the response is never modified once it has arrived, and each step  *)
(* of the accumulation keeps every category at its place and extends the   *)
(* category's list: the list before the step is a prefix of the list       *)
(* after it.                                                               *)
(***************************************************************************)
C10_NoMutation ==
  []C10_ListsOnlyGrow /\ [][IsSome(response) => response' = response]_vars

C10_Witness ==
  /\ Rendered
  /\ \E i \in 1..(Len(StepsOfResponse) - 1) :
       \E k \in 1..Len(StepsOfResponse[i]) :
         /\ StepsOfResponse[i][k].value # <<>>
         /\ Len(StepsOfResponse[i + 1][k].value)
              > Len(StepsOfResponse[i][k].value)

====
